---- MODULE Spec2Model ----
(***************************************************************************)
(* Model of src/src/main.ts (AutoBillTracker): the in-memory bill          *)
(* collection, the form, the rendered list, the tauri store behind save()  *)
(* and load(), and the asynchronous event handlers that mutate them.       *)
(*                                                                         *)
(* Strings that the code parses or tests (names, amounts, due dates) are   *)
(* sequences of one-character strings, so that trim(), Number(), the date  *)
(* regular expression, new Date() and toISOString() are computed, not      *)
(* assumed.  Timestamps are whole hours since 1970-01-01T00:00Z.           *)
(***************************************************************************)
EXTENDS Integers, Sequences, FiniteSets, TLC

VARIABLES
    run,        \* the environment of this run (fixed): see Runs below
    pc,         \* position of the DOMContentLoaded handler
    now,        \* the wall clock, hours since the epoch (UTC)
    bills,      \* let bills: Bill[]
    form,       \* idEl, nameEl, amountEl, dueEl, recurrenceEl, notesEl values
    view,       \* what render() last put into billList
    cache,      \* the store plugin's in-memory value of key "bills"
    disk,       \* bills.json on disk
    inflight,   \* handlers suspended in `await save()`
    nextUid,    \* number of uid() values handed out so far
    notified,   \* the sendNotification() calls made
    last        \* the last step: its handler, outcome and showError() message

vars == <<run, pc, now, bills, form, view, cache, disk, inflight, nextUid,
          notified, last>>

-----------------------------------------------------------------------------
(* Bounds of the model.                                                    *)

MaxClock == 1      \* clock ticks in a run
MaxInFlight == 2   \* handlers suspended in save() at once
MaxUid == 2        \* uid() values in a run

-----------------------------------------------------------------------------
(* Characters and strings.                                                 *)

Digits == <<"0", "1", "2", "3", "4", "5", "6", "7", "8", "9">>

IsDigit(c) == \E i \in 1..10 : Digits[i] = c

DigitVal(c) == (CHOOSE i \in 1..10 : Digits[i] = c) - 1

\* String.prototype.trim, for the white space the inputs use (the blank).
RECURSIVE TrimLeft(_)
TrimLeft(s) ==
    IF s # <<>> /\ Head(s) = " " THEN TrimLeft(Tail(s)) ELSE s

RECURSIVE TrimRight(_)
TrimRight(s) ==
    IF s # <<>> /\ s[Len(s)] = " " THEN TrimRight(SubSeq(s, 1, Len(s) - 1)) ELSE s

trim(s) == TrimRight(TrimLeft(s))

\* String.prototype.toLowerCase, for the letters the inputs use.
UpperLetters == <<"R", "X">>

LowerLetters == <<"r", "x">>

LowerChar(c) ==
    IF \E i \in 1..Len(UpperLetters) : UpperLetters[i] = c
    THEN LowerLetters[CHOOSE i \in 1..Len(UpperLetters) : UpperLetters[i] = c]
    ELSE c

toLowerCase(s) == [i \in 1..Len(s) |-> LowerChar(s[i])]

\* String.prototype.includes
includes(s, q) ==
    \E i \in 0..(Len(s) - Len(q)) : SubSeq(s, i + 1, i + Len(q)) = q

\* Value of a run of decimal digits.
RECURSIVE DigitsVal(_)
DigitsVal(s) ==
    IF s = <<>> THEN 0
    ELSE 10 * DigitsVal(SubSeq(s, 1, Len(s) - 1)) + DigitVal(s[Len(s)])

AllDigits(s) == \A i \in 1..Len(s) : IsDigit(s[i])

\* Number(v) for strings over digits, sign, blank and letters: white space is
\* stripped, the empty string is 0, an optionally signed digit run is its
\* value, anything else is NaN.
Number(v) ==
    LET t == trim(v) IN
    IF t = <<>> THEN [nan |-> FALSE, val |-> 0]
    ELSE IF AllDigits(t) THEN [nan |-> FALSE, val |-> DigitsVal(t)]
    ELSE IF Len(t) > 1 /\ Head(t) = "-" /\ AllDigits(Tail(t))
         THEN [nan |-> FALSE, val |-> 0 - DigitsVal(Tail(t))]
    ELSE IF Len(t) > 1 /\ Head(t) = "+" /\ AllDigits(Tail(t))
         THEN [nan |-> FALSE, val |-> DigitsVal(Tail(t))]
    ELSE [nan |-> TRUE, val |-> 0]

parseMoney(v) ==
    LET n == Number(v) IN
    IF ~n.nan THEN (IF n.val > 0 THEN n.val ELSE 0) ELSE 0

\* String(n) for a non-negative integer.
RECURSIVE NatToStr(_)
NatToStr(n) ==
    IF n < 10 THEN <<Digits[n + 1]>>
    ELSE Append(NatToStr(n \div 10), Digits[(n % 10) + 1])

\* n as exactly w digits, zero padded (n < 10^w).
RECURSIVE Pad(_, _)
Pad(n, w) ==
    IF w = 0 THEN <<>> ELSE Append(Pad(n \div 10, w - 1), Digits[(n % 10) + 1])

-----------------------------------------------------------------------------
(* The calendar behind Date: proleptic Gregorian days since 1970-01-01.    *)

IsLeap(y) == (y % 4 = 0 /\ y % 100 # 0) \/ y % 400 = 0

DaysInMonth(y, m) ==
    IF m = 2 THEN (IF IsLeap(y) THEN 29 ELSE 28)
    ELSE IF m \in {4, 6, 9, 11} THEN 30 ELSE 31

\* Day number of the civil date y-m-d (m in 1..12, d in 1..31): the days
\* before year y, before month m of it, and d.
DaysBeforeYear(y) ==
    365 * (y - 1970) + ((y - 1) \div 4 - 492) - ((y - 1) \div 100 - 19)
        + ((y - 1) \div 400 - 4)

DaysBeforeMonth(y, m) ==
    <<0, 31, 59, 90, 120, 151, 181, 212, 243, 273, 304, 334>>[m]
        + (IF m > 2 /\ IsLeap(y) THEN 1 ELSE 0)

DaysFromCivil(y, m, d) == DaysBeforeYear(y) + DaysBeforeMonth(y, m) + d - 1

\* The civil date of day number n: its year, then its month, then its day.
YearOfDay(n) ==
    CHOOSE y \in (1970 + n \div 366)..(1970 + n \div 365) :
        DaysBeforeYear(y) <= n /\ n < DaysBeforeYear(y + 1)

MonthOfDay(y, n) ==
    CHOOSE m \in 1..12 :
        /\ DaysFromCivil(y, m, 1) <= n
        /\ n < DaysFromCivil(y, m, 1) + DaysInMonth(y, m)

CivilOf(y, m, n) == [y |-> y, m |-> m, d |-> n - DaysFromCivil(y, m, 1) + 1]

CivilInYear(y, n) == CivilOf(y, MonthOfDay(y, n), n)

CivilFromDays(n) == CivilInYear(YearOfDay(n), n)

\* ECMAScript MakeDay: year, zero-based month (any integer >= 0) and day of
\* month (any integer) to a day number; months and days overflow forwards.
MakeDay(y, m0, dt) == DaysFromCivil(y + m0 \div 12, (m0 % 12) + 1, 1) + dt - 1

\* /^\d{4}-\d{2}-\d{2}$/.test(s)
dateRegex(s) ==
    /\ Len(s) = 10
    /\ \A i \in {1, 2, 3, 4, 6, 7, 9, 10} : IsDigit(s[i])
    /\ s[5] = "-"
    /\ s[8] = "-"

\* The Date of year y, month m, day d: UTC midnight of that date, or an
\* Invalid Date (valid = FALSE) when the month or day is not a calendar one.
DateOf(y, m, d) ==
    IF m \in 1..12 /\ d >= 1 /\ d <= DaysInMonth(y, m)
    THEN [valid |-> TRUE, t |-> DaysFromCivil(y, m, d) * 24]
    ELSE [valid |-> FALSE, t |-> 0]

\* new Date(dateStr) for a date-only string.
NewDate(s) ==
    IF ~dateRegex(s) THEN [valid |-> FALSE, t |-> 0]
    ELSE DateOf(DigitsVal(SubSeq(s, 1, 4)), DigitsVal(SubSeq(s, 6, 7)),
                DigitsVal(SubSeq(s, 9, 10)))

\* d.toISOString().slice(0, 10): the UTC date, as yyyy-mm-dd.
ISODateOf(c) == Pad(c.y, 4) \o <<"-">> \o Pad(c.m, 2) \o <<"-">> \o Pad(c.d, 2)

ISODate(t) == ISODateOf(CivilFromDays(t \div 24))

-----------------------------------------------------------------------------
(* Date helpers of the application.                                        *)

\* daysUntil(dateStr) at wall-clock time t under offset off.  setHours(0,0,
\* 0,0) moves a time value to the local midnight of its local day; an Invalid
\* Date gives NaN.  The offset is fixed, so the difference is whole days.
LocalMidnight(t, off) == ((t + off) \div 24) * 24 - off

DaysBetween(d, t, off) ==
    IF ~d.valid THEN [nan |-> TRUE, val |-> 0]
    ELSE [nan |-> FALSE,
          val |-> (LocalMidnight(d.t, off) - LocalMidnight(t, off)) \div 24]

daysUntil(dateStr, t, off) == DaysBetween(NewDate(dateStr), t, off)

\* d.setMonth(d.getMonth() + 1) and d.setFullYear(d.getFullYear() + 1) on the
\* time value t: the local fields c at local hour h, one field changed, back
\* to a time value.
SetLocal(c, h, recurrence, off) ==
    IF recurrence = "monthly"
    THEN MakeDay(c.y, (c.m - 1) + 1, c.d) * 24 + h - off
    ELSE MakeDay(c.y + 1, c.m - 1, c.d) * 24 + h - off

Advance(t, recurrence, off) ==
    IF recurrence \in {"monthly", "yearly"}
    THEN SetLocal(CivilFromDays((t + off) \div 24), (t + off) % 24, recurrence, off)
    ELSE t

\* nextRecurringDate(dateStr, recurrence); toISOString throws a RangeError on
\* an Invalid Date (threw = TRUE).
NextOf(d, dateStr, recurrence, off) ==
    IF ~d.valid THEN [threw |-> TRUE, value |-> dateStr]
    ELSE [threw |-> FALSE, value |-> ISODate(Advance(d.t, recurrence, off))]

nextRecurringDate(dateStr, recurrence, off) ==
    IF recurrence = "none" THEN [threw |-> FALSE, value |-> dateStr]
    ELSE NextOf(NewDate(dateStr), dateStr, recurrence, off)

-----------------------------------------------------------------------------
(* Inputs of the environment.                                              *)

Recurrences == {"none", "monthly", "yearly"}

\* What the user may type into the name, amount and due date fields: for
\* each, the values validateBillForm tells apart, the last one acceptable.
NameInputs == { <<>>, <<" ">>, <<" ", "r">> }

AmountInputs == { <<>>, <<"-", "5">>, <<"x">>, <<"5">> }

\* Empty, not 4-2-2, 4-2-2 but no calendar date (month 13), and a date.
DueInputs == { <<>>,
               <<"2", "4", "-", "1", "-", "3", "1">>,
               <<"2", "0", "2", "4", "-", "1", "3", "-", "0", "1">>,
               <<"2", "0", "2", "4", "-", "0", "1", "-", "3", "1">> }

GoodName == <<" ", "r">>

GoodAmount == <<"5">>

GoodDue == <<"2", "0", "2", "4", "-", "0", "1", "-", "3", "1">>

\* Submissions with at most one field wrong at a time.
Typed ==
    { [name |-> nm, amount |-> GoodAmount, due |-> GoodDue] : nm \in NameInputs }
    \cup { [name |-> GoodName, amount |-> am, due |-> GoodDue] : am \in AmountInputs }
    \cup { [name |-> GoodName, amount |-> GoodAmount, due |-> du] : du \in DueInputs }

\* The submissions among them that validateBillForm accepts: a calendar due
\* date and month 13.
TypedAccepted ==
    { [name |-> GoodName, amount |-> GoodAmount, due |-> du] :
        du \in { <<"2", "0", "2", "4", "-", "1", "3", "-", "0", "1">>, GoodDue } }

\* The one with a calendar due date.
TypedGood == { [name |-> GoodName, amount |-> GoodAmount, due |-> GoodDue] }

\* The time the application is opened: 2024-02-02T20:00Z.
ClockStart == DaysFromCivil(2024, 2, 2) * 24 + 20

\* One tick of the clock, in hours.
TickHours == 12

\* The user pays no recurring bill that is due after this day, which bounds
\* how far a run advances a due date.
LastDay == DaysFromCivil(2024, 1, 31)

uid(n) == <<"u1", "u2", "u3", "u4">>[n]

\* A collection an earlier run may have saved: one unpaid monthly bill.
SavedBills ==
    << [id |-> "s1", name |-> <<"r">>, amount |-> 5,
        dueDate |-> <<"2", "0", "2", "4", "-", "0", "1", "-", "3", "1">>,
        recurrence |-> "monthly", notes |-> <<>>, paid |-> FALSE,
        createdAt |-> ClockStart - 24, updatedAt |-> ClockStart - 24] >>

\* A one-off bill of such a file, written a day before the run.
Stored(id, name, notes, amount, due, paid) ==
    [id |-> id, name |-> name, amount |-> amount, dueDate |-> due,
     recurrence |-> "none", notes |-> notes, paid |-> paid,
     createdAt |-> ClockStart - 24, updatedAt |-> ClockStart - 24]

\* yyyy-mm-dd of a day of 2024.
Day2024(m, d) == <<"2", "0", "2", "4", "-">> \o Pad(m, 2) \o <<"-">> \o Pad(d, 2)

\* A file with bills due around the day of the run (3 days before 2 February
\* to 8 days after 3 February), one of them paid, one with month 13.
ViewBills ==
    << Stored("v1", <<"R", "x">>, <<>>, 100, Day2024(1, 30), FALSE),
       Stored("v2", <<"x">>, <<"R">>, 50, Day2024(2, 2), FALSE),
       Stored("v3", <<"x">>, <<>>, 20, Day2024(2, 3), FALSE),
       Stored("v4", <<"r">>, <<>>, 50, Day2024(2, 10), TRUE),
       Stored("v5", <<"x">>, <<>>, 7, Day2024(2, 10), FALSE),
       Stored("v6", <<"x">>, <<"x", "r">>, 3, Day2024(2, 11), FALSE),
       Stored("v7", <<"x">>, <<>>, 1, Day2024(13, 1), FALSE) >>

\* A file with more bills due than one notification lists.
DueBills ==
    << Stored("d1", <<"x">>, <<>>, 9, Day2024(2, 3), TRUE),
       Stored("d2", <<"x">>, <<>>, 1, Day2024(2, 3), FALSE),
       Stored("d3", <<"x">>, <<>>, 2, Day2024(2, 2), FALSE),
       Stored("d4", <<"x">>, <<>>, 3, Day2024(2, 1), FALSE),
       Stored("d5", <<"x">>, <<>>, 4, Day2024(1, 31), FALSE),
       Stored("d6", <<"x">>, <<>>, 5, Day2024(2, 3), FALSE),
       Stored("d7", <<"x">>, <<>>, 6, Day2024(2, 4), FALSE) >>

\* What the user may type into the search field, and the options of the
\* status select.
Queries == { <<>>, <<"r">>, <<"R">>, <<"r", "x">>, <<"z">> }

Statuses == {"all", "due", "overdue", "paid", "unpaid"}

-----------------------------------------------------------------------------
(* Pure parts of the handlers.                                             *)

\* bills.findIndex((b) => b.id === id); 0 stands for -1.
findIndex(bs, id) ==
    IF \E i \in 1..Len(bs) : bs[i].id = id
    THEN CHOOSE i \in 1..Len(bs) :
            bs[i].id = id /\ \A j \in 1..(i - 1) : bs[j].id # id
    ELSE 0

\* bills.splice(idx): the deletion without its count.
splice_ToEnd(bs, idx) == SubSeq(bs, 1, idx - 1)

\* bills.splice(idx, 1)
splice(bs, idx) == SubSeq(bs, 1, idx - 1) \o SubSeq(bs, idx + 1, Len(bs))

\* validateBillForm() without the check of the amount.
validateBillForm_AnyAmount(f) ==
    IF trim(f.name) = <<>> THEN "Bill name is required"
    ELSE IF f.due = <<>> THEN "Due date is required"
    ELSE IF ~dateRegex(f.due) THEN "Invalid due date format"
    ELSE ""

\* validateBillForm(): the message, or "" for null.
validateBillForm(f) ==
    IF trim(f.name) = <<>> THEN "Bill name is required"
    ELSE IF parseMoney(f.amount) <= 0 THEN "Amount must be greater than 0"
    ELSE IF f.due = <<>> THEN "Due date is required"
    ELSE IF ~dateRegex(f.due) THEN "Invalid due date format"
    ELSE ""

\* The record with `paid` taken from nowhere: an edit resets it.
upsertRecord_PaidReset(bs, f, id, t) ==
    [id |-> id,
     name |-> trim(f.name),
     amount |-> parseMoney(f.amount),
     dueDate |-> f.due,
     recurrence |-> f.recurrence,
     notes |-> trim(f.notes),
     paid |-> FALSE,
     createdAt |-> IF findIndex(bs, id) > 0 THEN bs[findIndex(bs, id)].createdAt ELSE t,
     updatedAt |-> t]

\* The record with createdAt stamped anew on every edit.
upsertRecord_Restamped(bs, f, id, t) ==
    [id |-> id,
     name |-> trim(f.name),
     amount |-> parseMoney(f.amount),
     dueDate |-> f.due,
     recurrence |-> f.recurrence,
     notes |-> trim(f.notes),
     paid |-> IF findIndex(bs, id) > 0 THEN bs[findIndex(bs, id)].paid ELSE FALSE,
     createdAt |-> t,
     updatedAt |-> t]

\* The record upsertBillFromForm() builds; notes <<>> stands for undefined
\* (an empty trimmed note is never stored as a string).
upsertRecord(bs, f, id, t) ==
    LET existingIdx == findIndex(bs, id) IN
    [id |-> id,
     name |-> trim(f.name),
     amount |-> parseMoney(f.amount),
     dueDate |-> f.due,
     recurrence |-> f.recurrence,
     notes |-> trim(f.notes),
     paid |-> IF existingIdx > 0 THEN bs[existingIdx].paid ELSE FALSE,
     createdAt |-> IF existingIdx > 0 THEN bs[existingIdx].createdAt ELSE t,
     updatedAt |-> t]

\* upsertBillFromForm() pushing whether or not the id is there.
upsertBills_AlwaysPush(bs, f, id, t) == Append(bs, upsertRecord(bs, f, id, t))

\* The collection after upsertBillFromForm() passed validation.
upsertBills(bs, f, id, t) ==
    LET existingIdx == findIndex(bs, id)
        record == upsertRecord(bs, f, id, t)
    IN  IF existingIdx > 0 THEN [bs EXCEPT ![existingIdx] = record]
        ELSE Append(bs, record)

\* The toggle-paid branch after `b.paid = !b.paid; b.updatedAt = ...` gave
\* b1: the bill it leaves, and whether nextRecurringDate threw (nx).
Rolled(b1, nx) ==
    IF nx.threw THEN [threw |-> TRUE, bill |-> b1]
    ELSE [threw |-> FALSE, bill |-> [b1 EXCEPT !.dueDate = nx.value, !.paid = FALSE]]

Toggled(b1, off) ==
    IF b1.paid /\ b1.recurrence # "none"
    THEN Rolled(b1, nextRecurringDate(b1.dueDate, b1.recurrence, off))
    ELSE [threw |-> FALSE, bill |-> b1]

togglePaid(b, t, off) == Toggled([b EXCEPT !.paid = ~b.paid, !.updatedAt = t], off)

\* render(): the filter callback on bill b with its daysUntil d, for the
\* lower-cased search text q and the value of the status select.
matches(b, q) ==
    includes(toLowerCase(b.name), q) \/ includes(toLowerCase(b.notes), q)

statusOk(b, d, status) ==
    IF status = "due" THEN ~b.paid /\ ~d.nan /\ d.val >= 0 /\ d.val <= 7
    ELSE IF status = "overdue" THEN ~b.paid /\ ~d.nan /\ d.val < 0
    ELSE IF status = "paid" THEN b.paid
    ELSE IF status = "unpaid" THEN ~b.paid
    ELSE TRUE

filtered(bs, q, status, t, off) ==
    SelectSeq(bs, LAMBDA b : matches(b, q)
                             /\ statusOk(b, daysUntil(b.dueDate, t, off), status))

\* The class of the title of a list item.
dueClass(b, d) ==
    IF b.paid THEN "paid"
    ELSE IF ~d.nan /\ d.val < 0 THEN "overdue"
    ELSE IF ~d.nan /\ d.val <= 7 THEN "due"
    ELSE "ok"

\* The total with the paid bills counted in.
RECURSIVE total_WithPaid(_, _)
total_WithPaid(fs, n) ==
    IF n = 0 THEN 0 ELSE total_WithPaid(fs, n - 1) + fs[n].amount

\* `total` after the loop over the first n filtered bills.
RECURSIVE total(_, _)
total(fs, n) ==
    IF n = 0 THEN 0
    ELSE total(fs, n - 1) + (IF ~fs[n].paid THEN fs[n].amount ELSE 0)

\* One <li>: the bill its buttons carry, the class and the days it shows.
renderItem(b, d) == [id |-> b.id, dueClass |-> dueClass(b, d), days |-> d]

renderItems(fs, t, off) ==
    [i \in 1..Len(fs) |-> renderItem(fs[i], daysUntil(fs[i].dueDate, t, off))]

\* What render() leaves on the page: the list, totalCountEl and
\* totalAmountEl; search and status are the values of searchEl and filterEl
\* it read.
rendered(fs, search, status, t, off) ==
    [items |-> renderItems(fs, t, off), count |-> Len(fs),
     total |-> total(fs, Len(fs)), search |-> search, status |-> status]

render(bs, search, status, t, off) ==
    rendered(filtered(bs, toLowerCase(search), status, t, off), search, status,
             t, off)

\* The form after resetForm() at time t.
resetForm(t) ==
    [id |-> "", name |-> <<>>, amount |-> <<>>, due |-> ISODate(t),
     recurrence |-> "monthly", notes |-> <<>>]

\* The form after fillForm(b).
fillForm(b) ==
    [id |-> b.id, name |-> b.name, amount |-> NatToStr(b.amount),
     due |-> b.dueDate, recurrence |-> b.recurrence, notes |-> b.notes]

\* The bills maybeNotifyDue() selects at time t.
InWindow(days) == ~days.nan /\ days.val <= 0 /\ days.val >= 0 - 3

dueNow(bs, t, off) ==
    SelectSeq(bs, LAMBDA b : ~b.paid /\ InWindow(daysUntil(b.dueDate, t, off)))

\* dueNow.slice(0, 4)
slice4(due) == SubSeq(due, 1, IF Len(due) < 4 THEN Len(due) ELSE 4)

\* One line of the body: the bill it names and the days overdue it states
\* (0 reads "today").
bodyLine(b, d) == [id |-> b.id, overdue |-> 0 - d.val]

bodyLines(due, t, off) ==
    [i \in 1..Len(due) |-> bodyLine(due[i], daysUntil(due[i].dueDate, t, off))]

\* The argument of sendNotification(): the number in the title and the body.
notification(due, t, off) ==
    [count |-> Len(due), body |-> bodyLines(slice4(due), t, off)]

-----------------------------------------------------------------------------
(* The state machine.                                                      *)
(*                                                                         *)
(* `run` is the environment of one run of the application: the machine's   *)
(* UTC offset (tz), the file an earlier run left (saved), what the user    *)
(* submits (typed, recs), how many bills the user adds (uids), how many    *)
(* handlers the user leaves waiting in save() at once (flights), how long  *)
(* the run lasts (ticks) and whether the plugins' calls may reject         *)
(* (faults).  The handlers never read it: it only limits the environment.  *)
(*                                                                         *)
(* `form` holds the values the program last wrote into the form fields;    *)
(* what the user types over them is the input of Submit.  `view` is the    *)
(* list render() last built: only an item that is in it can be clicked.    *)

\* The fields of an event that reads none.
NoInput == [id |-> "", name |-> <<>>, amount |-> <<>>, due |-> <<>>,
            recurrence |-> "none", notes |-> <<>>]

\* The last event handled: the listener, the branch it took, the message it
\* showed, and for a submission the fields it read.
Did(op, outcome, error) ==
    [op |-> op, outcome |-> outcome, error |-> error, input |-> NoInput]

Submitted(f, outcome, error) ==
    [op |-> "submit", outcome |-> outcome, error |-> error, input |-> f]

InitWith(runs) ==
    /\ run \in runs
    /\ pc = "start"
    /\ now = ClockStart
    /\ bills = <<>>
    /\ form = [id |-> "", name |-> <<>>, amount |-> <<>>, due |-> <<>>,
               recurrence |-> "monthly", notes |-> <<>>]
    /\ view = [items |-> <<>>, count |-> 0, total |-> 0, search |-> <<>>,
               status |-> "all"]
    /\ cache = <<>>
    /\ disk = run.saved
    /\ inflight = <<>>
    /\ nextUid = 0
    /\ notified = <<>>
    /\ last = Did("none", "none", "")

\* The clock advances (it never goes back).
Tick ==
    /\ now < ClockStart + run.ticks * TickHours
    /\ now' = now + TickHours
    /\ last' = Did("tick", "none", "")
    /\ UNCHANGED <<run, pc, bills, form, view, cache, disk, inflight, nextUid,
                   notified>>

\* initializeStore(): Store.load("bills.json") resolves.
InitializeStore ==
    /\ pc = "start"
    /\ cache' = disk
    /\ pc' = "load"
    /\ last' = Did("initializeStore", "resolved", "")
    /\ UNCHANGED <<run, now, bills, form, view, disk, inflight, nextUid, notified>>

\* initializeStore(): Store.load rejects; the rethrown error ends the
\* DOMContentLoaded handler in its catch block, before any listener is added.
InitializeStoreFails ==
    /\ pc = "start"
    /\ run.faults
    /\ pc' = "aborted"
    /\ last' = Did("initializeStore", "threw", "Failed to initialize the application")
    /\ UNCHANGED <<run, now, bills, form, view, cache, disk, inflight, nextUid,
                   notified>>

\* The listeners registered right after the first render(), the reminder
\* left out.
AfterLoad_Registered ==
    /\ form' = [form EXCEPT !.due = IF form.due = <<>> THEN ISODate(now) ELSE form.due]
    /\ view' = render(bills', view.search, view.status, now, run.tz)
    /\ pc' = "ready"
    /\ UNCHANGED <<run, now, cache, disk, inflight, nextUid, notified>>

\* What follows load() in the same turn: the default due date, render() and
\* the call of maybeNotifyDue() up to its first await.
AfterLoad ==
    /\ form' = [form EXCEPT !.due = IF form.due = <<>> THEN ISODate(now) ELSE form.due]
    /\ view' = render(bills', view.search, view.status, now, run.tz)
    /\ pc' = "notify"
    /\ UNCHANGED <<run, now, cache, disk, inflight, nextUid, notified>>

\* load(): store.get("bills") resolves.
Load ==
    /\ pc = "load"
    /\ bills' = cache
    /\ last' = Did("load", "resolved", "")
    /\ AfterLoad

\* load(): store.get rejects; the catch block starts with an empty list.
LoadFails ==
    /\ pc = "load"
    /\ run.faults
    /\ bills' = <<>>
    /\ last' = Did("load", "threw", "Failed to load bills. Starting with empty list.")
    /\ AfterLoad

\* The rest of maybeNotifyDue(), then the registration of the listeners.
\* granted: what ensureNotifPermission() returned (false also when it threw);
\* sent: whether sendNotification() returned rather than threw.
MaybeNotifyDue ==
    /\ pc = "notify"
    /\ \E granted \in BOOLEAN, sent \in {TRUE} \cup {~run.faults} :
          LET due == dueNow(bills, now, run.tz) IN
          /\ notified' = IF granted /\ sent /\ due # <<>>
                         THEN Append(notified, notification(due, now, run.tz))
                         ELSE notified
          /\ last' = Did("maybeNotifyDue",
                         IF ~granted THEN "denied"
                         ELSE IF due = <<>> THEN "nothing due"
                         ELSE IF sent THEN "sent" ELSE "threw", "")
    /\ pc' = "ready"
    /\ UNCHANGED <<run, now, bills, form, view, cache, disk, inflight, nextUid>>

\* A handler that called save(): store.set("bills", bills) has been invoked
\* with the collection as it was at that moment.
Suspended(op, bs) == [op |-> op, stage |-> "set", snap |-> bs]

\* What the user may submit: name, amount and due date are what the program
\* last wrote into the fields or something typed; the recurrence is an option
\* of the select; idEl is hidden and notesEl is left as it is.
Submissions ==
    { [id |-> form.id, name |-> ty.name, amount |-> ty.amount, due |-> ty.due,
       recurrence |-> rc, notes |-> form.notes] :
         ty \in run.typed \cup {[name |-> form.name, amount |-> form.amount,
                                 due |-> form.due]},
         rc \in run.recs }

\* The submit listener when validateBillForm() rejects the fields.
SubmitRejected(f) ==
    /\ pc = "ready"
    /\ validateBillForm(f) # ""
    /\ last' = Submitted(f, "rejected", validateBillForm(f))
    /\ UNCHANGED <<run, pc, now, bills, form, view, cache, disk, inflight,
                   nextUid, notified>>

\* The submit listener when the fields pass: upsertBillFromForm(), then
\* save() up to its first await.
Submit(f) ==
    LET fresh == f.id = ""
        id == IF fresh THEN uid(nextUid + 1) ELSE f.id
        found == findIndex(bills, id) > 0
    IN  /\ pc = "ready"
        /\ validateBillForm(f) = ""
        /\ fresh => nextUid < run.uids
        /\ Len(inflight) < run.flights
        /\ bills' = upsertBills(bills, f, id, now)
        /\ nextUid' = IF fresh THEN nextUid + 1 ELSE nextUid
        /\ inflight' = Append(inflight, Suspended("submit", bills'))
        /\ last' = Submitted(f, IF found THEN "replaced" ELSE "inserted", "")
        /\ UNCHANGED <<run, pc, now, form, view, cache, disk, notified>>

\* The reset button.
ResetClick ==
    /\ pc = "ready"
    /\ form' = resetForm(now)
    /\ last' = Did("reset", "none", "")
    /\ UNCHANGED <<run, pc, now, bills, view, cache, disk, inflight, nextUid,
                   notified>>

\* The listener of searchEl and filterEl: render() with the values the two
\* elements have after the event.
RenderEvent(search, status) ==
    /\ pc = "ready"
    /\ view' = render(bills, search, status, now, run.tz)
    /\ last' = Did("render", "none", "")
    /\ UNCHANGED <<run, pc, now, bills, form, cache, disk, inflight, nextUid,
                   notified>>

\* An input event on searchEl: the user has typed the text q.
SearchInput(q) == RenderEvent(q, view.status)

\* A change event on filterEl: the user has picked the option st.
FilterChange(st) == RenderEvent(view.search, st)

\* A click on a button of the i-th rendered item whose bill is gone:
\* findIndex gives -1 and the listener returns.
ClickAbsent(i, action) ==
    /\ pc = "ready"
    /\ findIndex(bills, view.items[i].id) = 0
    /\ last' = Did(action, "absent", "")
    /\ UNCHANGED <<run, pc, now, bills, form, view, cache, disk, inflight,
                   nextUid, notified>>

\* A click on the Edit button of the i-th rendered item.
ClickEdit(i) ==
    LET idx == findIndex(bills, view.items[i].id)
    IN  /\ pc = "ready"
        /\ idx > 0
        /\ form' = fillForm(bills[idx])
        /\ last' = Did("edit", "filled", "")
        /\ UNCHANGED <<run, pc, now, bills, view, cache, disk, inflight, nextUid,
                       notified>>

\* A click on the Delete button of the i-th rendered item, answered with
\* Cancel in confirm().
ClickDeleteDeclined(i) ==
    /\ pc = "ready"
    /\ findIndex(bills, view.items[i].id) > 0
    /\ last' = Did("delete", "declined", "")
    /\ UNCHANGED <<run, pc, now, bills, form, view, cache, disk, inflight,
                   nextUid, notified>>

\* A click on the Delete button of the i-th rendered item, confirmed:
\* splice, then save() up to its first await.
ClickDelete(i) ==
    LET idx == findIndex(bills, view.items[i].id)
    IN  /\ pc = "ready"
        /\ idx > 0
        /\ Len(inflight) < run.flights
        /\ bills' = splice(bills, idx)
        /\ inflight' = Append(inflight, Suspended("delete", bills'))
        /\ last' = Did("delete", "deleted", "")
        /\ UNCHANGED <<run, pc, now, form, view, cache, disk, nextUid, notified>>

\* A click on the Mark Paid / Mark Unpaid button of the i-th rendered item:
\* the toggle (r is its result on bills[idx]), then save() up to its first
\* await.
ToggleSaved(idx, r) ==
    /\ ~r.threw
    /\ Len(inflight) < run.flights
    /\ r.bill.dueDate # bills[idx].dueDate =>
           NewDate(bills[idx].dueDate).t \div 24 <= LastDay
    /\ bills' = [bills EXCEPT ![idx] = r.bill]
    /\ inflight' = Append(inflight, Suspended("toggle-paid", bills'))
    /\ last' = Did("toggle-paid", "toggled", "")
    /\ UNCHANGED <<run, pc, now, form, view, cache, disk, nextUid, notified>>

TogglePaidAt(idx) ==
    /\ pc = "ready"
    /\ idx > 0
    /\ ToggleSaved(idx, togglePaid(bills[idx], now, run.tz))

ClickTogglePaid(i) == TogglePaidAt(findIndex(bills, view.items[i].id))

\* The same click when nextRecurringDate throws: the bill keeps what was
\* assigned before the throw, the catch block reports it, save() is not called.
ToggleThrown(idx, r) ==
    /\ r.threw
    /\ bills' = [bills EXCEPT ![idx] = r.bill]
    /\ last' = Did("toggle-paid", "threw", "Failed to toggle-paid bill")
    /\ UNCHANGED <<run, pc, now, form, view, cache, disk, inflight, nextUid,
                   notified>>

TogglePaidThrowsAt(idx) ==
    /\ pc = "ready"
    /\ idx > 0
    /\ ToggleThrown(idx, togglePaid(bills[idx], now, run.tz))

ClickTogglePaidThrows(i) == TogglePaidThrowsAt(findIndex(bills, view.items[i].id))

Remove(q, k) == SubSeq(q, 1, k - 1) \o SubSeq(q, k + 1, Len(q))

\* store.set() of the k-th suspended handler resolves: save() goes on to
\* call store.save().
SetDone(k) ==
    /\ inflight[k].stage = "set"
    /\ cache' = inflight[k].snap
    /\ inflight' = [inflight EXCEPT ![k].stage = "save"]
    /\ last' = Did("save", "set", "")
    /\ UNCHANGED <<run, pc, now, bills, form, view, disk, nextUid, notified>>

\* store.save() of the k-th suspended handler resolves: save() returns true,
\* the handler calls render(), and resetForm() after a submit.
SaveDone(k) ==
    /\ inflight[k].stage = "save"
    /\ inflight' = Remove(inflight, k)
    /\ disk' = cache
    /\ view' = render(bills, view.search, view.status, now, run.tz)
    /\ form' = IF inflight[k].op = "submit" THEN resetForm(now) ELSE form
    /\ last' = Did("save", "saved", "")
    /\ UNCHANGED <<run, pc, now, bills, cache, nextUid, notified>>

\* save() failing and the handler putting back what the store holds.
SaveFails_RollsBack(k) ==
    /\ run.faults
    /\ inflight' = Remove(inflight, k)
    /\ bills' = cache
    /\ last' = Did("save", "failed", "Failed to save bills. Changes may be lost.")
    /\ UNCHANGED <<run, pc, now, form, view, cache, disk, nextUid, notified>>

\* save() failing and the handler rendering all the same.
SaveFails_Renders(k) ==
    /\ run.faults
    /\ inflight' = Remove(inflight, k)
    /\ view' = render(bills, view.search, view.status, now, run.tz)
    /\ last' = Did("save", "failed", "Failed to save bills. Changes may be lost.")
    /\ UNCHANGED <<run, pc, now, bills, form, cache, disk, nextUid, notified>>

\* store.set() or store.save() of the k-th suspended handler rejects: save()
\* reports it and returns false, and the handler does nothing more.
SaveFails(k) ==
    /\ run.faults
    /\ inflight' = Remove(inflight, k)
    /\ last' = Did("save", "failed", "Failed to save bills. Changes may be lost.")
    /\ UNCHANGED <<run, pc, now, bills, form, view, cache, disk, nextUid, notified>>

Actions == {"edit", "delete", "toggle-paid"}

Next ==
    \/ Tick
    \/ InitializeStore
    \/ InitializeStoreFails
    \/ Load
    \/ LoadFails
    \/ MaybeNotifyDue
    \/ \E f \in Submissions : SubmitRejected(f)
    \/ \E f \in Submissions : Submit(f)
    \/ ResetClick
    \/ \E q \in run.queries : SearchInput(q)
    \/ \E st \in run.statuses : FilterChange(st)
    \/ \E i \in 1..Len(view.items), a \in Actions : ClickAbsent(i, a)
    \/ \E i \in 1..Len(view.items) : ClickEdit(i)
    \/ \E i \in 1..Len(view.items) : ClickDeleteDeclined(i)
    \/ \E i \in 1..Len(view.items) : ClickDelete(i)
    \/ \E i \in 1..Len(view.items) : ClickTogglePaid(i)
    \/ \E i \in 1..Len(view.items) : ClickTogglePaidThrows(i)
    \/ \E k \in 1..Len(inflight) : SetDone(k)
    \/ \E k \in 1..Len(inflight) : SaveDone(k)
    \/ \E k \in 1..Len(inflight) : SaveFails(k)

-----------------------------------------------------------------------------
(* Runs and specifications.                                                *)

\* One one-off bill, every kind of submission, the user waiting for each
\* save before the next change.
FormRuns ==
    { [tz |-> 9, saved |-> <<>>, typed |-> Typed, recs |-> {"none"},
       uids |-> 1, flights |-> 1, ticks |-> MaxClock, faults |-> FALSE,
       queries |-> {<<>>}, statuses |-> {"all"}] }

\* One bill of every recurrence.
BillRuns ==
    { [tz |-> 9, saved |-> <<>>, typed |-> TypedAccepted, recs |-> Recurrences,
       uids |-> 1, flights |-> 1, ticks |-> MaxClock, faults |-> FALSE,
       queries |-> {<<>>}, statuses |-> {"all"}] }

\* Several one-off bills.
PairRuns ==
    { [tz |-> 9, saved |-> <<>>, typed |-> TypedGood, recs |-> {"none"},
       uids |-> MaxUid, flights |-> 1, ticks |-> MaxClock, faults |-> FALSE,
       queries |-> {<<>>}, statuses |-> {"all"}] }

\* One one-off bill, the user not waiting for the saves, the plugins' calls
\* failing at will.
AsyncRuns ==
    { [tz |-> 9, saved |-> <<>>, typed |-> TypedGood, recs |-> {"none"},
       uids |-> 1, flights |-> MaxInFlight, ticks |-> 0, faults |-> TRUE,
       queries |-> {<<>>}, statuses |-> {"all"}] }

\* A file left by an earlier run, opened west of Greenwich.
LoadedRuns ==
    { [tz |-> 0 - 5, saved |-> SavedBills, typed |-> TypedGood,
       recs |-> {"monthly"}, uids |-> 0, flights |-> 1, ticks |-> MaxClock,
       faults |-> TRUE,
       queries |-> {<<>>}, statuses |-> {"all"}] }

\* A file with many bills, east and west of Greenwich, the user searching
\* and filtering only.
ViewRuns ==
    { [tz |-> z, saved |-> file, typed |-> {}, recs |-> {"none"}, uids |-> 0,
       flights |-> 0, ticks |-> MaxClock, faults |-> FALSE,
       queries |-> Queries, statuses |-> Statuses] :
         z \in {9, 0 - 5}, file \in {ViewBills, DueBills} }

Runs ==
    FormRuns \cup BillRuns \cup PairRuns \cup AsyncRuns \cup LoadedRuns
        \cup ViewRuns

Spec == InitWith(Runs) /\ [][Next]_vars

-----------------------------------------------------------------------------
(* Properties.                                                             *)

Ids(bs) == {bs[i].id : i \in 1..Len(bs)}

\* yyyy-mm-dd as a number that orders 4-2-2 strings as the strings order.
DateKey(s) ==
    DigitsVal(SubSeq(s, 1, 4)) * 10000 + DigitsVal(SubSeq(s, 6, 7)) * 100
        + DigitsVal(SubSeq(s, 9, 10))

\* C1: in every reachable state every bill with paid = true has recurrence =
\* none: a monthly or yearly bill is never stored with paid = true.
C1_PaidOnlyIfOneOff ==
    \A i \in 1..Len(bills) : bills[i].paid => bills[i].recurrence = "none"

\* C2: toggle-paid on an unpaid bill gives, for a monthly or yearly bill,
\* paid = false and a strictly later dueDate, and for a one-off bill paid =
\* true and the same dueDate; on a paid bill it gives paid = false and the
\* same dueDate.
C2_Post(b, b2) ==
    IF ~b.paid
    THEN IF b.recurrence \in {"monthly", "yearly"}
         THEN ~b2.paid /\ DateKey(b2.dueDate) > DateKey(b.dueDate)
         ELSE b2.paid /\ b2.dueDate = b.dueDate
    ELSE ~b2.paid /\ b2.dueDate = b.dueDate

C2_At(i, idx) ==
    (ClickTogglePaid(i) \/ ClickTogglePaidThrows(i)) =>
        C2_Post(bills[idx], bills'[idx])

C2_TogglePaidContract ==
    [][last'.op = "toggle-paid" =>
          \A i \in 1..Len(view.items) :
              C2_At(i, findIndex(bills, view.items[i].id))]_vars

\* C3: no state has two handlers with a save in flight (mutations are
\* serialized with their saves).
C3_OneSaveInFlight == Len(inflight) <= 1

\* C4: no failure of the store or of the notifications keeps the submit and
\* list-action listeners from being registered: the start-up never ends
\* without them.
C4_ListenersRegistered == pc # "aborted"

\* C7: toggle-paid for an id that is not in the collection ends in an error
\* outcome (NotFoundError), the collection unchanged.
C7_AbsentToggleIsAnError ==
    (last.op = "toggle-paid" /\ last.outcome = "absent") => last.error # ""

\* C2 on calendar dates only (a due date such as 2024-13-01, which the
\* regular expression lets through, is what breaks it).
C2_OnCalendarDatesAt(i, idx) ==
    ((ClickTogglePaid(i) \/ ClickTogglePaidThrows(i))
        /\ NewDate(bills[idx].dueDate).valid) =>
            C2_Post(bills[idx], bills'[idx])

C2_OnCalendarDates ==
    [][last'.op = "toggle-paid" =>
          \A i \in 1..Len(view.items) :
              C2_OnCalendarDatesAt(i, findIndex(bills, view.items[i].id))]_vars

\* The records of bs2 that are not records of bs.
Written(bs, bs2) ==
    {bs2[k] : k \in 1..Len(bs2)} \ {bs[k] : k \in 1..Len(bs)}

\* C5: a submission whose trimmed name is empty, whose amount is <= 0 after
\* clamping, or whose due date is not 4-2-2 digits is rejected, the collection
\* unchanged and no save started; every record an accepted submission writes
\* has a non-empty name, an amount > 0 and a 4-2-2 due date.
C5_Bad(f) ==
    \/ trim(f.name) = <<>>
    \/ parseMoney(f.amount) <= 0
    \/ ~dateRegex(f.due)

C5_WellFormed(b) ==
    /\ b.name # <<>>
    /\ b.amount > 0
    /\ dateRegex(b.dueDate)

C5_At(f) ==
    /\ ((SubmitRejected(f) \/ Submit(f)) /\ C5_Bad(f)) =>
           /\ bills' = bills
           /\ inflight' = inflight
           /\ last'.outcome = "rejected"
           /\ last'.error # ""
    /\ Submit(f) => \A b \in Written(bills, bills') : C5_WellFormed(b)

C5_ValidationContract ==
    [][last'.op = "submit" => C5_At(last'.input)]_vars

\* A submission was rejected for its amount.
C5_Witness ==
    /\ last.op = "submit"
    /\ last.outcome = "rejected"
    /\ last.error = "Amount must be greater than 0"
    /\ parseMoney(last.input.amount) = 0
    /\ inflight = <<>>

\* C6: an accepted submission with an id that is in the collection replaces
\* that record in place (same length, same position and id, paid and
\* createdAt kept) and any other appends one record (paid = false, createdAt
\* = updatedAt = now); every other record is left as it was.
C6_Replaced(f, k) ==
    /\ Len(bills') = Len(bills)
    /\ \A j \in 1..Len(bills) : j # k => bills'[j] = bills[j]
    /\ bills'[k].id = f.id
    /\ bills'[k].paid = bills[k].paid
    /\ bills'[k].createdAt = bills[k].createdAt

C6_Appended(f, n) ==
    /\ Len(bills') = n + 1
    /\ \A j \in 1..n : bills'[j] = bills[j]
    /\ bills'[n + 1].paid = FALSE
    /\ bills'[n + 1].createdAt = now
    /\ bills'[n + 1].updatedAt = now
    /\ IF f.id = "" THEN bills'[n + 1].id \notin Ids(bills)
       ELSE bills'[n + 1].id = f.id

C6_At(f) ==
    Submit(f) =>
        IF f.id \in Ids(bills)
        THEN C6_Replaced(f, CHOOSE k \in 1..Len(bills) : bills[k].id = f.id)
        ELSE C6_Appended(f, Len(bills))

C6_UpsertFrame ==
    [][last'.op = "submit" => C6_At(last'.input)]_vars

\* A paid bill was replaced in a collection of two.
C6_Witness ==
    /\ last.op = "submit"
    /\ last.outcome = "replaced"
    /\ Len(bills) = 2
    /\ \E i \in 1..2 : bills[i].paid /\ bills[i].updatedAt = now
                       /\ bills[i].createdAt < now

\* C8: a confirmed delete removes exactly the record with the clicked id and
\* keeps the others in their order; a delete of an id that is not (or no
\* longer) in the collection changes nothing and reports no error.
C8_At(i, id) ==
    /\ ClickDelete(i) =>
           /\ bills' = SelectSeq(bills, LAMBDA b : b.id # id)
           /\ Len(bills') = Len(bills) - 1
    /\ ClickAbsent(i, "delete") =>
           /\ bills' = bills
           /\ inflight' = inflight
           /\ last'.error = ""

C8_DeleteIdempotent ==
    [][last'.op = "delete" =>
          \A i \in 1..Len(view.items) : C8_At(i, view.items[i].id)]_vars

\* Delete was clicked again on an item whose bill is already deleted, another
\* bill being in the collection.
C8_Witness ==
    /\ last = Did("delete", "absent", "")
    /\ Len(bills) = 1

\* C9: bill ids are unique within the collection in every reachable state.
C9_UniqueIds ==
    \A i, j \in 1..Len(bills) : i # j => bills[i].id # bills[j].id

\* The first bill was loaded into the form, deleted, and submitted again
\* with its stale id after the second one was added.
C9_Witness ==
    /\ Len(bills) = 2
    /\ bills[1].id = uid(2)
    /\ bills[2].id = uid(1)

\* C10: createdAt <= updatedAt for every bill; the createdAt of an id does not
\* change while it stays in the collection; an accepted submission and a
\* toggle-paid set updatedAt of their record to the current time.
C10_Ordered ==
    \A i \in 1..Len(bills) : bills[i].createdAt <= bills[i].updatedAt

C10_CreatedKept ==
    \A i \in 1..Len(bills), j \in 1..Len(bills') :
        bills[i].id = bills'[j].id => bills[i].createdAt = bills'[j].createdAt

C10_Touched ==
    /\ (last'.op = "submit" /\ Submit(last'.input)) =>
          \A b \in Written(bills, bills') : b.updatedAt = now
    /\ last'.op = "toggle-paid" =>
          \A i \in 1..Len(view.items) :
              (ClickTogglePaid(i) \/ ClickTogglePaidThrows(i)) =>
                  \A b \in Written(bills, bills') : b.updatedAt = now

C10_Timestamps == []C10_Ordered /\ [][C10_CreatedKept /\ C10_Touched]_vars

\* A bill created before the last tick was edited or toggled after it.
C10_Witness ==
    /\ last.op \in {"submit", "toggle-paid"}
    /\ \E i \in 1..Len(bills) :
          bills[i].createdAt < bills[i].updatedAt /\ bills[i].updatedAt = now

\* A step in which render() ran: load's turn, a search or filter event, or a
\* save that succeeded.
Renders ==
    \/ last'.op \in {"load", "render"}
    \/ last'.op = "save" /\ last'.outcome = "saved"

\* C11: when a save fails the collection in memory is left as it is, the
\* mutation in it, and the listeners stay in place for further operations.
C11_NoRollback ==
    [][(last'.op = "save" /\ last'.outcome = "failed") =>
           /\ bills' = bills
           /\ pc' = "ready"
           /\ cache' = cache
           /\ disk' = disk]_vars

\* A save failed and the collection holds a bill the file does not.
C11_Witness ==
    /\ last.op = "save"
    /\ last.outcome = "failed"
    /\ inflight = <<>>
    /\ Len(bills) = 1
    /\ disk = <<>>

\* The sum of the amounts of the first n bills of bs that are unpaid and
\* whose id is in ids.
RECURSIVE C13_Sum(_, _, _)
C13_Sum(bs, ids, n) ==
    IF n = 0 THEN 0
    ELSE C13_Sum(bs, ids, n - 1)
         + (IF bs[n].id \in ids /\ ~bs[n].paid THEN bs[n].amount ELSE 0)

\* C13: whenever render() has run, the count it shows is the number of items
\* in the list and the total is the sum of the amounts of the listed bills
\* that are unpaid; a listed paid bill adds nothing.
C13_CountAndTotal ==
    [][Renders =>
          /\ view'.count = Len(view'.items)
          /\ view'.total =
                C13_Sum(bills', {view'.items[i].id : i \in 1..Len(view'.items)},
                        Len(bills'))]_vars

\* Bills of 100, 50, 20, 7, 3 and 1 unpaid and one of 50 paid, all listed.
C13_Witness ==
    /\ view.status = "all"
    /\ view.search = <<>>
    /\ view.count = 7
    /\ view.total = 181
    /\ \E i \in 1..Len(view.items) : view.items[i].dueClass = "paid"

\* C19: the handler goes from store initialization to load, to the first
\* render and the reminder, and only then registers the listeners; before
\* that no listener has run, load assigns the collection while it is still
\* the initial empty one, and at most one notification is sent, about bills
\* of the loaded file.
C19_NoListenerYet ==
    pc # "ready" =>
        /\ inflight = <<>>
        /\ nextUid = 0
        /\ form.id = ""
        /\ last.op \in {"none", "tick", "initializeStore", "load", "maybeNotifyDue"}

C19_Order ==
    /\ pc' # pc => <<pc, pc'>> \in { <<"start", "load">>, <<"start", "aborted">>,
                                     <<"load", "notify">>, <<"notify", "ready">> }
    /\ last'.op = "load" => pc = "load" /\ bills = <<>> /\ bills' \in {cache, <<>>}
    /\ (pc # "ready" /\ bills' # bills) => last'.op = "load"
    /\ notified' # notified =>
          /\ pc = "notify"
          /\ bills = run.saved
          /\ Len(notified') = 1
          /\ \A i \in 1..Len(notified'[1].body) :
                notified'[1].body[i].id \in Ids(run.saved)

C19_StartupOrder ==
    [](C19_NoListenerYet /\ Len(notified) <= 1) /\ [][C19_Order]_vars

\* The listeners are registered after a notification about five due bills.
C19_Witness ==
    /\ pc = "ready"
    /\ Len(notified) = 1
    /\ notified[1].count = 5
    /\ bills = run.saved

\* C20: a mutation does not touch the list or the form; a save that succeeds
\* renders the collection (and resets the form after a submission); a save
\* that fails leaves the list, the count, the total and the form as they
\* were; the list changes in no other step than a render.
C20_SavedAt(k) ==
    (inflight[k].stage = "save" /\ inflight' = Remove(inflight, k)) =>
        /\ view' = render(bills, view.search, view.status, now, run.tz)
        /\ inflight[k].op = "submit" => form'.id = "" /\ form'.name = <<>>

C20_Step ==
    /\ last'.op \in {"submit", "delete", "toggle-paid"} =>
          view' = view /\ form' = form
    /\ (last'.op = "save" /\ last'.outcome = "failed") =>
          view' = view /\ form' = form
    /\ (last'.op = "save" /\ last'.outcome = "saved") =>
          \E k \in 1..Len(inflight) : C20_SavedAt(k)
    /\ view' # view => Renders

C20_RefreshOnlyOnSuccess == [][C20_Step]_vars

\* A submission whose save failed: the bill is in the collection, the list
\* and the count still show none.
C20_Witness ==
    /\ last.op = "save"
    /\ last.outcome = "failed"
    /\ Len(bills) = 1
    /\ view.count = 0
    /\ view.items = <<>>

\* The day number of a yyyy-mm-dd calendar date, the day number of the local
\* date at time t, and the calendar days from the one to the other.
IsCalendarDate(s) == NewDate(s).valid

CalendarDay(s) ==
    DaysFromCivil(DigitsVal(SubSeq(s, 1, 4)), DigitsVal(SubSeq(s, 6, 7)),
                  DigitsVal(SubSeq(s, 9, 10)))

LocalToday(t, off) == (t + off) \div 24

CalendarDays(s, t, off) == CalendarDay(s) - LocalToday(t, off)

IdsOf(items) == [i \in 1..Len(items) |-> items[i].id]

\* C12: whenever render() has run, the list holds, in the order of the
\* collection, exactly the bills whose name or notes contains the query
\* (letter case apart) and that the status option admits: due = unpaid and
\* due in 0 to 7 days, overdue = unpaid and due before today, paid, unpaid,
\* all = every bill.
C12_Admits(b, status, t, off) ==
    IF status = "due"
    THEN ~b.paid /\ IsCalendarDate(b.dueDate)
         /\ CalendarDays(b.dueDate, t, off) >= 0
         /\ CalendarDays(b.dueDate, t, off) <= 7
    ELSE IF status = "overdue"
    THEN ~b.paid /\ IsCalendarDate(b.dueDate)
         /\ CalendarDays(b.dueDate, t, off) < 0
    ELSE IF status = "paid" THEN b.paid
    ELSE IF status = "unpaid" THEN ~b.paid
    ELSE TRUE

C12_Matches(b, q) ==
    \/ includes(toLowerCase(b.name), toLowerCase(q))
    \/ includes(toLowerCase(b.notes), toLowerCase(q))

C12_Visible(bs, q, status, t, off) ==
    SelectSeq(bs, LAMBDA b : C12_Matches(b, q) /\ C12_Admits(b, status, t, off))

C12_At(bs, v, t, off) ==
    IdsOf(v.items) = IdsOf(C12_Visible(bs, v.search, v.status, t, off))

C12_VisibleIsFilter == [][Renders => C12_At(bills', view', now, run.tz)]_vars

\* C14: whenever render() has run, every item has exactly the class its bill
\* calls for: paid if the bill is paid; otherwise overdue if it is due before
\* today, due (due-soon) if it is due in 0 to 7 calendar days, ok if it is due
\* in 8 days or more, and never ok for any other reason.
C14_Class(b, t, off) ==
    IF b.paid THEN "paid"
    ELSE IF ~IsCalendarDate(b.dueDate) THEN "none"
    ELSE IF CalendarDays(b.dueDate, t, off) < 0 THEN "overdue"
    ELSE IF CalendarDays(b.dueDate, t, off) <= 7 THEN "due"
    ELSE "ok"

C14_At(bs, items, t, off) ==
    \A i \in 1..Len(items) : \A j \in 1..Len(bs) :
        bs[j].id = items[i].id => items[i].dueClass = C14_Class(bs[j], t, off)

C14_Classification == [][Renders => C14_At(bills', view'.items, now, run.tz)]_vars

\* C15: whenever render() has run, the days an item shows for a bill with a
\* calendar due date are the calendar days from the local date of today to
\* the due date: 0 today, positive later, negative earlier.
C15_At(bs, items, t, off) ==
    \A i \in 1..Len(items) : \A j \in 1..Len(bs) :
        (bs[j].id = items[i].id /\ IsCalendarDate(bs[j].dueDate)) =>
            /\ ~items[i].days.nan
            /\ items[i].days.val = CalendarDays(bs[j].dueDate, t, off)

C15_DaysUntilIsCalendarDays ==
    [][Renders => C15_At(bills', view'.items, now, run.tz)]_vars

\* Year, month and day of a yyyy-mm-dd string, and the months since year 0.
C16_Year(s) == DigitsVal(SubSeq(s, 1, 4))

C16_Month(s) == DigitsVal(SubSeq(s, 6, 7))

C16_Dom(s) == DigitsVal(SubSeq(s, 9, 10))

C16_MonthIndex(s) == C16_Year(s) * 12 + C16_Month(s)

\* C16: marking an unpaid recurring bill with a calendar due date paid gives
\* it a calendar due date: for monthly one in the month right after the
\* month of the old one, for yearly the same month and day a year later.
C16_Next(old, recurrence, new) ==
    /\ IsCalendarDate(new)
    /\ recurrence = "monthly" => C16_MonthIndex(new) = C16_MonthIndex(old) + 1
    /\ recurrence = "yearly" =>
          /\ C16_Year(new) = C16_Year(old) + 1
          /\ C16_Month(new) = C16_Month(old)
          /\ C16_Dom(new) = C16_Dom(old)

C16_At(i, idx) ==
    (ClickTogglePaid(i) /\ ~bills[idx].paid /\ bills[idx].recurrence # "none"
        /\ IsCalendarDate(bills[idx].dueDate)) =>
            C16_Next(bills[idx].dueDate, bills[idx].recurrence, bills'[idx].dueDate)

C16_NextOccurrence ==
    [][last'.op = "toggle-paid" =>
          \A i \in 1..Len(view.items) :
              C16_At(i, findIndex(bills, view.items[i].id))]_vars

\* C17: the reminder picks, in the order of the collection, exactly the
\* unpaid bills due today or up to 3 calendar days ago; the notification
\* counts them all and lists the first 4; none is sent when there is no such
\* bill or the permission is not granted.
C17_Due(bs, t, off) ==
    SelectSeq(bs, LAMBDA b : /\ ~b.paid
                             /\ IsCalendarDate(b.dueDate)
                             /\ CalendarDays(b.dueDate, t, off) <= 0
                             /\ CalendarDays(b.dueDate, t, off) >= 0 - 3)

C17_First4(due) == SubSeq(due, 1, IF Len(due) < 4 THEN Len(due) ELSE 4)

C17_Sent(n, due) ==
    /\ n.count = Len(due)
    /\ IdsOf(n.body) = IdsOf(C17_First4(due))

C17_At(due) ==
    /\ notified' # notified =>
          /\ notified' = Append(notified, notified'[Len(notified')])
          /\ C17_Sent(notified'[Len(notified')], due)
    /\ (due = <<>> \/ last'.outcome = "denied") => notified' = notified
    /\ last'.outcome = "sent" => notified' # notified

C17_ReminderSelection ==
    [][last'.op = "maybeNotifyDue" => C17_At(C17_Due(bills, now, run.tz))]_vars

\* C18: once the listeners are registered, whenever no handler is in save()
\* and no call of the store has failed in the run, the store and the file
\* hold the collection that is in memory.
C18_DurableIsMemory ==
    (pc = "ready" /\ ~run.faults /\ inflight = <<>>) =>
        (cache = bills /\ disk = bills)

====
